---- MODULE Spec2Model ----
(***************************************************************************)
(* Model of the text-analysis pipeline of the e-mail assistant             *)
(* (src/nlp_processor.py) and of the refresh handler that drives it        *)
(* (src/app.py).                                                           *)
(*                                                                         *)
(* A Python str is a sequence of one-character strings.  The two model     *)
(* pipelines (summarizer, sentiment_analyzer) are black boxes: what each   *)
(* call returns, or that it raises, is an input of the operation, one      *)
(* outcome per chunk.  Whether NLTK's sentence tokenizer is usable is an   *)
(* input as well.  A float score is the exact rational num/den.            *)
(***************************************************************************)
EXTENDS Integers, Sequences, FiniteSets, TLC

VARIABLES call, ret, locals, gmail_service, emails, processed_emails, history

vars == <<call, ret, locals, gmail_service, emails, processed_emails, history>>

----------------------------------------------------------------------------
(* Python str and list primitives used by the source.                      *)

Min(a, b) == IF a < b THEN a ELSE b

Max(a, b) == IF a > b THEN a ELSE b

\* str.isspace() of one character, as str.split() and str.strip() use it.
IsWs(c) == c \in {" ", "\n"}

\* seq[a:b] for 0 <= a, 0 <= b (Python clips both ends to the length).
Slice(s, a, b) == SubSeq(s, a + 1, Min(b, Len(s)))

\* A word of s.split() starts at i: a non-blank after a blank or at the start.
WordStart(s, i) == ~IsWs(s[i]) /\ (i = 1 \/ IsWs(s[i - 1]))

\* The last character of the word that starts at i.
WordEnd(s, i) ==
  CHOOSE j \in i..Len(s) :
    /\ \A k \in i..j : ~IsWs(s[k])
    /\ (j = Len(s) \/ IsWs(s[j + 1]))

\* The positions lo..hi, in order.
Range(lo, hi) == [k \in 1..(hi - lo + 1) |-> lo + k - 1]

\* The words of s that start at the positions starts.
WordsAt(s, starts) ==
  [k \in 1..Len(starts) |-> SubSeq(s, starts[k], WordEnd(s, starts[k]))]

\* s.split(): the maximal runs of non-whitespace characters.
PySplit(s) ==
  WordsAt(s, SelectSeq(Range(1, Len(s)), LAMBDA i : WordStart(s, i)))

RECURSIVE JoinRange(_, _, _, _)
JoinRange(sep, parts, lo, hi) ==
  IF lo > hi THEN <<>>
  ELSE IF lo = hi THEN parts[lo]
  ELSE LET mid == (lo + hi) \div 2
       IN JoinRange(sep, parts, lo, mid) \o sep \o JoinRange(sep, parts, mid + 1, hi)

\* sep.join(parts)
Join(sep, parts) == JoinRange(sep, parts, 1, Len(parts))

\* The least element of a non-empty set of integers.
Lowest(S) == CHOOSE i \in S : \A j \in S : i <= j

\* The greatest element of a non-empty set of integers.
Highest(S) == CHOOSE i \in S : \A j \in S : j <= i

\* The end of the piece of s.split(c) that starts at position p
\* (p - 1 when the piece is empty).
PieceEnd(s, c, p) ==
  Lowest({j \in (p - 1)..Len(s) : j = Len(s) \/ s[j + 1] = c})

\* The pieces of s.split(c) that start at the positions starts.
PiecesAt(s, c, starts) ==
  [k \in 1..Len(starts) |-> SubSeq(s, starts[k], PieceEnd(s, c, starts[k]))]

\* s.split(c) for a one-character separator: n separators give n + 1 pieces,
\* empty ones included.
SplitOn(s, c) ==
  PiecesAt(s, c, SelectSeq(Range(1, Len(s) + 1), LAMBDA p : p = 1 \/ s[p - 1] = c))

\* s.strip()
Strip(s) ==
  IF \A i \in 1..Len(s) : IsWs(s[i]) THEN <<>>
  ELSE SubSeq(s,
         CHOOSE i \in 1..Len(s) : ~IsWs(s[i]) /\ \A k \in 1..(i - 1) : IsWs(s[k]),
         CHOOSE i \in 1..Len(s) : ~IsWs(s[i]) /\ \A k \in (i + 1)..Len(s) : IsWs(s[k]))

\* s.rfind(c): the 0-based index of the last c, -1 when there is none.
RFind(s, c) ==
  IF \A i \in 1..Len(s) : s[i] # c THEN -1
  ELSE Highest({i \in 1..Len(s) : s[i] = c}) - 1

\* [line for line in lines if len(line.split()) > 3]
LongLines(lines) == SelectSeq(lines, LAMBDA line : Len(PySplit(line)) > 3)

----------------------------------------------------------------------------
(* EmailProcessor.clean_text                                               *)

clean_text(text) ==
  Join(<<" ">>,
       LongLines(SplitOn(Join(<<" ">>, PySplit(text)), "\n")))

----------------------------------------------------------------------------
(* NLTK, as the source uses it.  A sentence ends at a word whose last      *)
(* character is a full stop; the text after the last full stop is a        *)
(* sentence of its own.                                                    *)

EndsSentence(word) == word[Len(word)] = "."

\* The last word of the sentence that starts at word i.
SentenceEnd(words, i) ==
  Lowest({j \in i..Len(words) : j = Len(words) \/ EndsSentence(words[j])})

\* The sentences of words that start at the words starts.
SentencesAt(words, starts) ==
  [k \in 1..Len(starts) |->
     Join(<<" ">>, SubSeq(words, starts[k], SentenceEnd(words, starts[k])))]

\* The sentences of a text given as its words.
SentencesOf(words) ==
  SentencesAt(words, SelectSeq(Range(1, Len(words)),
                               LAMBDA i : i = 1 \/ EndsSentence(words[i - 1])))

\* nltk.tokenize.sent_tokenize(text), when the punkt data is there.
sent_tokenize(text) == SentencesOf(PySplit(text))

----------------------------------------------------------------------------
(* Python values that cross the boundary of the pipeline.                  *)

PyStr(s) == [t |-> "str", v |-> s]

\* A value that is not a str (the 'summary_text' of a malformed result).
PyOther == [t |-> "int", v |-> <<>>]

Returns(v) == [raised |-> FALSE, value |-> v]

Raises == [raised |-> TRUE, value |-> PyOther]

----------------------------------------------------------------------------
(* EmailProcessor.summarize_email                                          *)

max_chunk_size == 500

default_max_length == 130

default_min_length == 30

short_text_words == 50

model_word_limit == 1000

fallback_chars == 200

fallback_sentences == 3

NoContent ==
  <<"N", "o", " ", "c", "o", "n", "t", "e", "n", "t", " ", "t", "o", " ",
    "s", "u", "m", "m", "a", "r", "i", "z", "e", ".">>

Ellipsis == <<".", ".", ".">>

\* ' '.join(words[i:i + max_chunk_size])
Window(words, i) == Join(<<" ">>, Slice(words, i, i + max_chunk_size))

\* chunk[:last_period + 1] when the chunk has a full stop.
TrimTo(chunk, last_period) ==
  IF last_period # -1 THEN Slice(chunk, 0, last_period + 1) ELSE chunk

\* One iteration of the chunk loop, for the value i that range() hands it.
\* The assignment to i at the end of the body is lost when range() hands
\* out the next value, so it has no effect on any chunk.
SummaryChunk(words, i) ==
  IF i + max_chunk_size < Len(words)
    THEN TrimTo(Window(words, i), RFind(Window(words, i), "."))
    ELSE Window(words, i)

\* for i in range(0, len(words), max_chunk_size): chunks.append(...)
SummaryChunks(words) ==
  [k \in 1..((Len(words) + max_chunk_size - 1) \div max_chunk_size) |->
     SummaryChunk(words, (k - 1) * max_chunk_size)]

\* ' '.join(chunk.split()[:1000]) when the chunk has more words than that.
Truncated(chunk, words) ==
  IF Len(words) > model_word_limit
    THEN Join(<<" ">>, Slice(words, 0, model_word_limit))
    ELSE chunk

\* The chunk the model is given.
ModelInput(chunk) == Truncated(chunk, PySplit(chunk))

AdjustedMax(chunk_length, max_length, min_length) ==
  Min(max_length, Max(min_length, chunk_length \div 3))

AdjustedMin(adjusted_max_length, min_length) ==
  Min(min_length, adjusted_max_length - 10)

CallArgs(text, adjusted_max_length, min_length) ==
  [text |-> text, max_length |-> adjusted_max_length,
   min_length |-> AdjustedMin(adjusted_max_length, min_length)]

\* The arguments of the call self.summarizer(chunk, max_length=, min_length=).
SummarizerCall(chunk, max_length, min_length) ==
  CallArgs(ModelInput(chunk),
           AdjustedMax(Len(PySplit(chunk)), max_length, min_length), min_length)

\* The except clause of the chunk loop: the first sentence of the chunk.
ChunkFallback(c, first_sentence) ==
  [append |-> IF first_sentence # <<>> THEN <<PyStr(first_sentence[1])>> ELSE <<>>,
   calls |-> <<c>>, escaped |-> FALSE]

\* The try statement of the chunk loop, c being the call and out what the
\* model does on it: what is appended to summaries, and whether an exception
\* leaves the loop (one raised inside the except clause is not caught by it).
AfterCall(c, out, punkt) ==
  CASE out.kind = "ok" ->
         [append |-> IF out.text # <<>> THEN <<PyStr(out.text)>> ELSE <<>>,
          calls |-> <<c>>, escaped |-> FALSE]
    [] out.kind = "falsy" ->
         [append |-> <<>>, calls |-> <<c>>, escaped |-> FALSE]
    [] out.kind = "nonstring" ->
         [append |-> <<PyOther>>, calls |-> <<c>>, escaped |-> FALSE]
    [] out.kind = "raise" ->
         IF ~punkt
           THEN [append |-> <<>>, calls |-> <<c>>, escaped |-> TRUE]
           ELSE ChunkFallback(c, Slice(sent_tokenize(c.text), 0, 1))

\* The body of "for chunk in chunks" for one chunk.
SummarizeChunk(chunk, out, punkt, max_length, min_length) ==
  IF ~(Len(PySplit(chunk)) > short_text_words)
    THEN [append |-> <<>>, calls |-> <<>>, escaped |-> FALSE]
    ELSE AfterCall(SummarizerCall(chunk, max_length, min_length), out, punkt)

\* What the n-th call of the summarizer does.
NthOut(outs, n) ==
  IF n \in DOMAIN outs THEN outs[n] ELSE [kind |-> "raise", text |-> <<>>]

\* summaries and the calls made, after one more chunk.
LoopStep(acc, step) ==
  [summaries |-> acc.summaries \o step.append,
   calls |-> acc.calls \o step.calls,
   escaped |-> step.escaped]

\* The loop over chunks k..Len(chunks), starting from what the earlier
\* chunks left; outs[n] is what the model does on its n-th call.
RECURSIVE SummarizeLoop(_, _, _, _, _, _, _)
SummarizeLoop(chunks, outs, punkt, max_length, min_length, k, acc) ==
  IF k > Len(chunks) \/ acc.escaped THEN acc
  ELSE SummarizeLoop(chunks, outs, punkt, max_length, min_length, k + 1,
         LoopStep(acc, SummarizeChunk(chunks[k], NthOut(outs, Len(acc.calls) + 1),
                                      punkt, max_length, min_length)))

\* FirstSentenceOr without the inner try: a failing sent_tokenize is raised
\* to the caller.
FirstSentenceOrRaise(sentences, text, punkt) ==
  IF punkt /\ sentences # <<>> THEN Returns(PyStr(sentences[1])) ELSE Raises

\* return sent_tokenize(text)[0], or text[:200] + "..." when that fails.
FirstSentenceOr(sentences, text, punkt) ==
  IF punkt /\ sentences # <<>>
    THEN Returns(PyStr(sentences[1]))
    ELSE Returns(PyStr(Slice(text, 0, fallback_chars) \o Ellipsis))

\* The handler of the outermost "except Exception".
SummarizeFallback(text, punkt) ==
  FirstSentenceOr(sent_tokenize(text), text, punkt)

\* Shortened without the cut.
NotShortened(final_summary, final_words, max_length) ==
  Returns(PyStr(final_summary))

\* "Ensure the final summary isn't too long"
Shortened(final_summary, final_words, max_length) ==
  IF Len(final_words) > max_length
    THEN Returns(PyStr(Join(<<" ">>, Slice(final_words, 0, max_length)) \o Ellipsis))
    ELSE Returns(PyStr(final_summary))

\* ' '.join(summaries) and what follows it.
Joined(final_summary, max_length) ==
  Shortened(final_summary, PySplit(final_summary), max_length)

\* "Combine summaries": summaries is the list the loop built.  Joining a
\* list with an item that is not a str raises TypeError.
CombineSummaries(text, summaries, punkt, max_length) ==
  IF summaries # <<>>
    THEN IF \E k \in 1..Len(summaries) : summaries[k].t # "str"
           THEN SummarizeFallback(text, punkt)
           ELSE Joined(Join(<<" ">>, [k \in 1..Len(summaries) |-> summaries[k].v]),
                       max_length)
    ELSE IF ~punkt THEN SummarizeFallback(text, punkt)
         ELSE Returns(PyStr(Join(<<" ">>,
                Slice(sent_tokenize(text), 0, fallback_sentences))))

\* The end of summarize_email, loop being what the chunk loop left.
AfterLoop(cleaned, chunks, loop, punkt, max_length) ==
  [ret |-> IF loop.escaped
             THEN SummarizeFallback(cleaned, punkt)
             ELSE CombineSummaries(cleaned, loop.summaries, punkt, max_length),
   cleaned |-> cleaned, chunks |-> chunks, calls |-> loop.calls,
   sentences |-> <<>>]

\* summarize_email from "Split text into smaller chunks" on.
SummarizeChunks(cleaned, chunks, outs, punkt, max_length, min_length) ==
  AfterLoop(cleaned, chunks,
            SummarizeLoop(chunks, outs, punkt, max_length, min_length, 1,
                          [summaries |-> <<>>, calls |-> <<>>, escaped |-> FALSE]),
            punkt, max_length)

\* SummarizeWords without the shortcut for short texts.
SummarizeWordsNoShortcut(cleaned, words, outs, punkt, max_length, min_length) ==
  SummarizeChunks(cleaned, SummaryChunks(words), outs, punkt, max_length, min_length)

\* summarize_email from "If text is very short" on.
SummarizeWords(cleaned, words, outs, punkt, max_length, min_length) ==
  IF Len(words) < short_text_words
    THEN [ret |-> Returns(PyStr(cleaned)), cleaned |-> cleaned,
          chunks |-> <<>>, calls |-> <<>>, sentences |-> <<>>]
    ELSE SummarizeChunks(cleaned, SummaryChunks(words), outs, punkt,
                         max_length, min_length)

\* summarize_email after text = self.clean_text(text).
SummarizeCleaned(cleaned, outs, punkt, max_length, min_length) ==
  SummarizeWords(cleaned, PySplit(cleaned), outs, punkt, max_length, min_length)

\* summarize_email(text, max_length, min_length) with outs[n] what the
\* summarizer does on its n-th call and punkt whether sent_tokenize works:
\* the outcome (ret) and the locals at the return.
SummarizeRun(text, outs, punkt, max_length, min_length) ==
  IF text = <<>> \/ Strip(text) = <<>>
    THEN [ret |-> Returns(PyStr(NoContent)), cleaned |-> <<>>,
          chunks |-> <<>>, calls |-> <<>>, sentences |-> <<>>]
    ELSE SummarizeCleaned(clean_text(text), outs, punkt, max_length, min_length)

summarize_email(text, outs, punkt) ==
  SummarizeRun(text, outs, punkt, default_max_length, default_min_length).ret

----------------------------------------------------------------------------
(* EmailProcessor.analyze_sentiment                                        *)

chunk_size == 500

sentiment_chars == 512

\* A score s of the sentiment model stands for the float s / ScoreUnits.
ScoreUnits == 10

Rat(n, d) == [num |-> n, den |-> d]

RatLess(a, b) == a.num * b.den < b.num * a.den

RatEq(a, b) == a.num * b.den = b.num * a.den

PositiveAbove == Rat(6, 10)

NegativeBelow == Rat(4, 10)

NeutralVerdict == [sentiment |-> "NEUTRAL", confidence |-> Rat(1, 2)]

\* for i in range(0, len(words), chunk_size): chunks.append(...)
SentimentChunks(words) ==
  [k \in 1..((Len(words) + chunk_size - 1) \div chunk_size) |->
     Join(<<" ">>, Slice(words, (k - 1) * chunk_size,
                         Min((k - 1) * chunk_size + chunk_size, Len(words))))]

\* result[0] of the calls kept, in order.
ResultsOf(outs, kept) == [n \in 1..Len(kept) |-> outs[kept[n]]]

\* Sentiments with a failed call counted as a score of 0.
SentimentsCountingFailures(chunks, outs) ==
  [k \in 1..Len(chunks) |->
     IF outs[k].kind = "raise" THEN [kind |-> "ok", score |-> 0] ELSE outs[k]]

\* What "for chunk in chunks" leaves in sentiments: result[0] of every call
\* that returned a non-empty result; a call that raises, or whose result
\* has no element 0, is skipped.
Sentiments(chunks, outs) ==
  ResultsOf(outs, SelectSeq(Range(1, Len(chunks)),
                            LAMBDA k : outs[k].kind \in {"ok", "noscore"}))

\* sum(s['score'] for s in sentiments[:k])
RECURSIVE SumScores(_, _)
SumScores(sentiments, k) ==
  IF k = 0 THEN 0 ELSE sentiments[k].score + SumScores(sentiments, k - 1)

\* Verdict with the thresholds inclusive.
VerdictInclusive(avg_score) ==
  [sentiment |-> IF ~RatLess(avg_score, PositiveAbove) THEN "POSITIVE"
                 ELSE IF ~RatLess(NegativeBelow, avg_score) THEN "NEGATIVE"
                 ELSE "NEUTRAL",
   confidence |-> avg_score]

\* "Determine final sentiment"
Verdict(avg_score) ==
  [sentiment |-> IF RatLess(PositiveAbove, avg_score) THEN "POSITIVE"
                 ELSE IF RatLess(avg_score, NegativeBelow) THEN "NEGATIVE"
                 ELSE "NEUTRAL",
   confidence |-> avg_score]

\* "Aggregate results": a result without a score raises KeyError in the
\* sum, which the outer except turns into the neutral verdict.
Aggregate(sentiments) ==
  IF sentiments = <<>> THEN Returns(NeutralVerdict)
  ELSE IF \E k \in 1..Len(sentiments) : sentiments[k].kind = "noscore"
    THEN Returns(NeutralVerdict)
  ELSE Returns(Verdict(Rat(SumScores(sentiments, Len(sentiments)),
                           Len(sentiments) * ScoreUnits)))

\* analyze_sentiment once the chunks are cut.
SentimentOfChunks(cleaned, chunks, outs) ==
  [ret |-> Aggregate(Sentiments(chunks, outs)),
   cleaned |-> cleaned, chunks |-> chunks,
   calls |-> [k \in 1..Len(chunks) |-> Slice(chunks[k], 0, sentiment_chars)],
   sentences |-> <<>>]

\* analyze_sentiment after text = self.clean_text(text).
SentimentOfCleaned(cleaned, outs) ==
  SentimentOfChunks(cleaned, SentimentChunks(PySplit(cleaned)), outs)

\* analyze_sentiment(text) with outs[k] what the sentiment model does on
\* chunk k: the outcome and the locals at the return.
SentimentRun(text, outs) == SentimentOfCleaned(clean_text(text), outs)

analyze_sentiment(text, outs) == SentimentRun(text, outs).ret

----------------------------------------------------------------------------
(* EmailProcessor.extract_key_points                                       *)

default_num_points == 5

first_sentence_bonus == 3

last_sentence_bonus == 2

length_bonus == 2

length_above == 5

length_below == 25

\* self.stopwords, as far as the alphabet of the model can spell them.
stopwords == {<<"a">>, <<"d", "o">>}

\* str.lower() of one character.
Lower(c) == IF c = "N" THEN "n" ELSE c

\* The tokens of a sentence given as its words: the full stop that ends the
\* sentence is a token of its own.
Tokens(ws) ==
  IF Len(ws) > 0 /\ Len(ws[Len(ws)]) > 1 /\ EndsSentence(ws[Len(ws)])
    THEN SubSeq(ws, 1, Len(ws) - 1)
           \o <<SubSeq(ws[Len(ws)], 1, Len(ws[Len(ws)]) - 1), <<".">> >>
    ELSE ws

\* word_tokenize(sentence.lower())
word_tokenize(sentence) ==
  Tokens(PySplit([i \in 1..Len(sentence) |-> Lower(sentence[i])]))

\* pos_tag of one token: the tagger is a lexicon on the first letter.
pos_tag(word) ==
  CASE word[1] = "n" -> "NN"
    [] word[1] = "v" -> "VBZ"
    [] word[1] = "d" -> "VB"
    [] word[1] = "j" -> "JJ"
    [] word[1] = "r" -> "RB"
    [] word[1] = "." -> "."
    [] OTHER -> "DT"

\* sentences.index(sentence), 0-based: the first occurrence of the text.
Index(sentences, sentence) ==
  Lowest({i \in 1..Len(sentences) : sentences[i] = sentence}) - 1

\* "Score based on important parts of speech"
TagScore(words) ==
  2 * Cardinality({k \in 1..Len(words) :
        words[k] \notin stopwords /\ pos_tag(words[k]) \in {"NN", "VB", "VBZ"}})
  + Cardinality({k \in 1..Len(words) :
        words[k] \notin stopwords /\ pos_tag(words[k]) \in {"JJ", "RB"}})

\* "Additional scoring for sentence position", index being
\* sentences.index(sentence).
PositionScore(index, count) ==
  IF index = 0 THEN first_sentence_bonus
  ELSE IF index = count - 1 THEN last_sentence_bonus
  ELSE 0

\* "Score based on sentence length"
LengthScore(words) ==
  IF length_above < Len(words) /\ Len(words) < length_below THEN length_bonus ELSE 0

ScoreOf(words, index, count) ==
  TagScore(words) + PositionScore(index, count) + LengthScore(words)

\* The score the loop body computes for one sentence.
SentenceScore(sentences, sentence) ==
  ScoreOf(word_tokenize(sentence), Index(sentences, sentence), Len(sentences))

\* The items of the sentences at the positions firsts.
ItemsAt(sentences, firsts) ==
  [n \in 1..Len(firsts) |->
     [sentence |-> sentences[firsts[n]],
      score |-> SentenceScore(sentences, sentences[firsts[n]])]]

\* sentence_scores.items(): one item per distinct sentence text, in the
\* order of first insertion.
SentenceScores(sentences) ==
  ItemsAt(sentences, SelectSeq(Range(1, Len(sentences)),
                               LAMBDA i : Index(sentences, sentences[i]) = i - 1))

\* sorted(items, key=Key) (list.sort is the same): stable, so an item goes
\* after the items with a smaller key and the earlier items with its key.
SortedBy(items, keys) ==
  [p \in 1..Len(items) |->
     items[CHOOSE i \in 1..Len(items) :
             p = 1 + Cardinality({j \in 1..Len(items) :
                       \/ keys[j] < keys[i]
                       \/ keys[j] = keys[i] /\ j < i})]]

\* sorted(items, key=lambda x: x[1], reverse=True)
ByScore(items) ==
  SortedBy(items, [k \in 1..Len(items) |-> 0 - items[k].score])

\* seq[:n] for any integer n.
Take(s, n) ==
  IF n >= 0 THEN SubSeq(s, 1, Min(n, Len(s)))
  ELSE SubSeq(s, 1, Max(0, Len(s) + n))

\* TopSentences without the slice.
TopSentencesAll(items, num_points) ==
  ByScore(items)

\* "Get top sentences": sorted(..., key=score, reverse=True)[:num_points]
TopSentences(items, num_points) ==
  Take(ByScore(items), num_points)

\* [point[0] for point in key_points]
TextsOf(key_points) == [k \in 1..Len(key_points) |-> key_points[k].sentence]

\* KeyPoints without the sort back into document order.
KeyPointsByScore(sentences, items, num_points) ==
  TextsOf(TopSentences(items, num_points))

\* key_points.sort(key=lambda x: sentences.index(x[0]))
ByPosition(sentences, key_points) ==
  SortedBy(key_points,
           [k \in 1..Len(key_points) |-> Index(sentences, key_points[k].sentence)])

\* "Sort by original order" and return the texts.
KeyPoints(sentences, items, num_points) ==
  TextsOf(ByPosition(sentences, TopSentences(items, num_points)))

\* extract_key_points once the sentences are there.
KeyPointsOf(cleaned, sentences, num_points) ==
  [ret |-> Returns(KeyPoints(sentences, SentenceScores(sentences), num_points)),
   cleaned |-> cleaned, chunks |-> <<>>, calls |-> <<>>,
   sentences |-> sentences]

\* extract_key_points after text = self.clean_text(text): sent_tokenize
\* raises without the punkt data, and any exception gives [].
KeyPointsOfCleaned(cleaned, num_points, punkt) ==
  IF ~punkt
    THEN [ret |-> Returns(<<>>), cleaned |-> cleaned, chunks |-> <<>>,
          calls |-> <<>>, sentences |-> <<>>]
    ELSE KeyPointsOf(cleaned, sent_tokenize(cleaned), num_points)

\* extract_key_points(text, num_points): the outcome and the locals.
KeyPointsRun(text, num_points, punkt) ==
  KeyPointsOfCleaned(clean_text(text), num_points, punkt)

extract_key_points(text, num_points, punkt) ==
  KeyPointsRun(text, num_points, punkt).ret

----
(* EmailProcessor.process_email                                            *)

\* email_data.get('body', '')
Body(email_data) ==
  IF "body" \in DOMAIN email_data THEN email_data.body ELSE <<>>

\* The record process_email returns; it raises if one of the three does.
ProcessResult(email_data, summary, sentiment, key_points) ==
  IF summary.raised \/ sentiment.raised \/ key_points.raised THEN Raises
  ELSE Returns([summary |-> summary.value,
                sentiment |-> sentiment.value,
                key_points |-> key_points.value,
                original_email |-> email_data])

\* The three analyses of one body.
Analyses(email_data, body, env) ==
  ProcessResult(email_data,
                summarize_email(body, env.sum_out, env.punkt),
                analyze_sentiment(body, env.sent_out),
                extract_key_points(body, default_num_points, env.punkt))

\* process_email on a processor that keeps its key points from one call to
\* the next.
ProcessEmailAccumulating(email_data, env) ==
  [Analyses(email_data, Body(email_data), env) EXCEPT
     !.value.key_points =
        (IF history = <<>> THEN <<>> ELSE history[Len(history)].result.key_points) \o @]

\* process_email(email_data), env being what the two models and the
\* tokenizer do during the call.
process_email(email_data, env) == Analyses(email_data, Body(email_data), env)

----------------------------------------------------------------------------
(* Inputs.                                                                 *)

\* Words past a chunk boundary in the long texts.
Extra == 2

\* Largest num_points tried (the smallest is -MaxPoints).
MaxPoints == 5

\* process_email calls recorded in history.
MaxHistory == 2

\* Messages in one fetch.
MaxBatch == 2

\* n times the word w, single-spaced.
Rep(w, n) == Join(<<" ">>, [i \in 1..n |-> w])

\* The texts w1 ... wn, single-spaced.
Sp(parts) == Join(<<" ">>, parts)

S1 == <<"a", " ", "a", ".">>

S2 == <<"n", " ", "v", " ", "N", " ", "j", " ", "r", ".">>

S3 == <<"j", " ", "a", ".">>

S5 == <<"d", "o", " ", "n", " ", "n", ".">>

TwoWords == <<"n", " ", "v">>

FourWords == <<"n", " ", "v", " ", "j", " ", "n", ".">>

\* Ten lines of two words each.
TenShortLines == Join(<<"\n">>, [i \in 1..10 |-> TwoWords])

\* A two-word line, then a line of six words, then a blank line.
ShortThenLong == TwoWords \o <<"\n">> \o S2 \o <<" ", "n", "\n", " ">>

\* Five sentences, the second and the fourth the same text.
Repeated == Sp(<<S1, S2, S3, S2, S5>>)

\* Four sentences, the last one the same text as the second.
DupLast == Sp(<<S1, <<"n", " ", "a", ".">>, S3, <<"n", " ", "a", ".">> >>)

\* Three sentences and words after the last full stop.
Trailing == Sp(<<S3, S5, S2, TwoWords>>)

JustShort == Sp(<<Rep(<<"a">>, short_text_words - 2), <<"n", ".">> >>)

AtShort == Sp(<<Rep(<<"a">>, short_text_words - 1), <<"n", ".">> >>)

OverShort == Sp(<<S2, Rep(<<"a">>, short_text_words - 5), <<"n", ".">> >>)

\* More than one chunk, a full stop inside the first chunk.
LongStop ==
  Sp(<<Rep(<<"a">>, 300), <<"n", ".">>, Rep(<<"a">>, max_chunk_size - 301 + Extra)>>)

\* Two chunks of more than 50 words each, the first one ending at a full stop
\* and beginning with a short sentence, as the second does.
TwoChunks ==
  Sp(<<S2, Rep(<<"a">>, 400), <<"n", ".">>, Rep(<<"a">>, max_chunk_size - 406),
       S5, Rep(<<"a">>, short_text_words + 5), <<"n", ".">> >>)

\* More than one chunk, no full stop at all.
LongPlain == Rep(<<"a">>, max_chunk_size + Extra)

\* More than one chunk, the only full stop of the first chunk inside a word.
LongInWord ==
  Sp(<<Rep(<<"a">>, 9), <<"n", ".", "v">>, Rep(<<"a">>, max_chunk_size - 10 + Extra),
       <<"n", ".">> >>)

Texts ==
  {<<>>, <<" ", "\n">>, TwoWords, FourWords, TenShortLines, ShortThenLong,
   Repeated, DupLast, Trailing, JustShort, AtShort, OverShort,
   LongStop, TwoChunks, LongPlain, LongInWord}

ShortSummary == <<"n", " ", "v", ".">>

LongSummary == Rep(<<"n">>, default_max_length + 1)

SumOut(kind, text) == [kind |-> kind, text |-> text]

\* What one call of the summarizer can do: return summary text (possibly
\* more words than asked for), return nothing usable, return a result whose
\* 'summary_text' is not a str, or raise (also: return a result that has no
\* [0]['summary_text']).
SumOuts ==
  {SumOut("ok", ShortSummary), SumOut("ok", LongSummary), SumOut("falsy", <<>>),
   SumOut("nonstring", <<>>), SumOut("raise", <<>>)}

SentOut(kind, score) == [kind |-> kind, score |-> score]

\* What one call of the sentiment model can do: return a score, return a
\* result without a score, or raise (also: return an empty result).
SentOuts ==
  {SentOut("ok", 0), SentOut("ok", 4), SentOut("ok", 6), SentOut("ok", ScoreUnits),
   SentOut("noscore", 0), SentOut("raise", 0)}

\* The outcomes of n calls.
Outcomes(outs, n) == [1..n -> outs]

NumPoints == (0 - MaxPoints)..MaxPoints

----------------------------------------------------------------------------
(* State.                                                                  *)

NoCall ==
  [op |-> "none", text |-> <<>>, num_points |-> 0,
   sum_out |-> <<>>, sent_out |-> <<>>, punkt |-> TRUE]

NoLocals == [cleaned |-> <<>>, chunks |-> <<>>, calls |-> <<>>, sentences |-> <<>>]

Locals(run) ==
  [cleaned |-> run.cleaned, chunks |-> run.chunks, calls |-> run.calls,
   sentences |-> run.sentences]

Init ==
  /\ call = NoCall
  /\ ret = Returns(PyOther)
  /\ locals = NoLocals
  /\ gmail_service = "None"
  /\ emails = <<>>
  /\ processed_emails = <<>>
  /\ history = <<>>

\* The number of chunks the summarizer is called on.
CallCount(words, chunks) ==
  IF Len(words) < short_text_words THEN 0
  ELSE Cardinality({k \in 1..Len(chunks) : Len(PySplit(chunks[k])) > short_text_words})

WordCallCount(words) == CallCount(words, SummaryChunks(words))

\* The number of calls of the summarizer that summarize_email(text) makes
\* when none of them fails.
SummaryCallCount(text) == WordCallCount(PySplit(clean_text(text)))

\* The number of calls of the sentiment model in analyze_sentiment(text).
SentimentCallCount(text) == Len(SentimentChunks(PySplit(clean_text(text))))

\* The operation c has run to its end.
Done(c, run) ==
  /\ call' = c
  /\ ret' = run.ret
  /\ locals' = Locals(run)

CallSummarize ==
  /\ call.op = "none"
  /\ \E text \in Texts :
       \E outs \in Outcomes(SumOuts, SummaryCallCount(text)), punkt \in BOOLEAN :
         Done([NoCall EXCEPT !.op = "summarize_email", !.text = text,
                             !.sum_out = outs, !.punkt = punkt],
              SummarizeRun(text, outs, punkt, default_max_length, default_min_length))
  /\ UNCHANGED <<gmail_service, emails, processed_emails, history>>

CallSentiment ==
  /\ call.op = "none"
  /\ \E text \in Texts :
       \E outs \in Outcomes(SentOuts, SentimentCallCount(text)) :
         Done([NoCall EXCEPT !.op = "analyze_sentiment", !.text = text,
                             !.sent_out = outs],
              SentimentRun(text, outs))
  /\ UNCHANGED <<gmail_service, emails, processed_emails, history>>

CallKeyPoints ==
  /\ call.op = "none"
  /\ \E text \in Texts, num_points \in NumPoints, punkt \in BOOLEAN :
       Done([NoCall EXCEPT !.op = "extract_key_points", !.text = text,
                           !.num_points = num_points, !.punkt = punkt],
            KeyPointsRun(text, num_points, punkt))
  /\ UNCHANGED <<gmail_service, emails, processed_emails, history>>

\* The caller has the result; the processor is ready for the next call.
Return ==
  /\ call.op \in {"summarize_email", "analyze_sentiment", "extract_key_points"}
  /\ call' = NoCall
  /\ ret' = Returns(PyOther)
  /\ locals' = NoLocals
  /\ UNCHANGED <<gmail_service, emails, processed_emails, history>>

Next == CallSummarize \/ CallSentiment \/ CallKeyPoints \/ Return

Spec == Init /\ [][Next]_vars

----------------------------------------------------------------------------
(* app.py: the Gmail service and the "Refresh Emails" button.              *)

Message(id, body) ==
  [id |-> id, subject |-> "subject", sender |-> "sender", date |-> "date",
   body |-> body, labels |-> <<"INBOX">>]

\* What get_latest_emails can return: records whose body is stripped and
\* not empty.  Two of the messages have the same body.
Messages ==
  {Message("m1", FourWords), Message("m2", FourWords), Message("m3", OverShort)}

Mailboxes == UNION {[1..n -> Messages] : n \in 0..MaxBatch}

\* What the models and the tokenizer do while one batch is processed.
BatchEnvs ==
  {[sum_out |-> <<SumOut("ok", ShortSummary)>>,
    sent_out |-> <<SentOut("ok", ScoreUnits)>>, punkt |-> TRUE],
   [sum_out |-> <<SumOut("raise", <<>>)>>,
    sent_out |-> <<SentOut("raise", 0)>>, punkt |-> TRUE],
   [sum_out |-> <<SumOut("nonstring", <<>>)>>,
    sent_out |-> <<SentOut("ok", 0)>>, punkt |-> FALSE]}

\* initialize_gmail(), run by the page while there is no service.
InitializeGmail ==
  /\ gmail_service = "None"
  /\ \E credentials \in BOOLEAN, authenticated \in BOOLEAN :
       /\ gmail_service' = IF credentials /\ authenticated THEN "service" ELSE "None"
       /\ call' = [NoCall EXCEPT !.op = "initialize_gmail"]
       /\ ret' = Returns(credentials /\ authenticated)
  /\ UNCHANGED <<locals, emails, processed_emails, history>>

\* The handler once the messages are fetched, results[i] being what
\* process_email gives for fetched[i].  history records every call of
\* process_email.
Refreshed(fetched, env, results) ==
  IF gmail_service = "None"
    THEN /\ ret' = Returns("Gmail service not initialized")
         /\ UNCHANGED <<emails, processed_emails, history>>
  ELSE IF \E i \in 1..Len(fetched) : results[i].raised
    THEN /\ ret' = Raises
         /\ emails' = fetched
         /\ UNCHANGED <<processed_emails, history>>
  ELSE /\ ret' = Returns(Len(fetched))
       /\ emails' = fetched
       /\ processed_emails' = [i \in 1..Len(fetched) |-> results[i].value]
       /\ history' = history \o
            [i \in 1..Len(fetched) |->
               [email_data |-> fetched[i], env |-> env,
                result |-> processed_emails'[i]]]

\* [process_email(email) for email in emails]
ProcessAll(fetched, env) ==
  [i \in 1..Len(fetched) |-> process_email(fetched[i], env)]

\* if st.button("Refresh Emails"): ...   (the model stops fetching when
\* history is full)
Refresh ==
  /\ \E fetched \in Mailboxes, env \in BatchEnvs :
       /\ Len(history) + Len(fetched) <= MaxHistory
       /\ Refreshed(fetched, env, ProcessAll(fetched, env))
  /\ call' = [NoCall EXCEPT !.op = "refresh"]
  /\ UNCHANGED <<locals, gmail_service>>

NextApp == InitializeGmail \/ Refresh

SpecApp == Init /\ [][NextApp]_vars

----------------------------------------------------------------------------
(* Properties.                                                             *)

\* C1: whatever the two models do (raise on every call, return nothing,
\* return a malformed result) and whether or not the tokenizer works,
\* summarize_email returns a str, analyze_sentiment a record with a sentiment
\* and a confidence, extract_key_points a list, and none of them raises.
C1_NeverRaises ==
  /\ ~ret.raised
  /\ call.op = "summarize_email" => ret.value.t = "str"
  /\ call.op = "analyze_sentiment" =>
       DOMAIN ret.value = {"sentiment", "confidence"}
  /\ call.op = "extract_key_points" => DOMAIN ret.value = 1..Len(ret.value)

\* The summarizer raised on a call and the tokenizer is unusable, too.
C1_Witness ==
  /\ call.op = "summarize_email"
  /\ ~call.punkt
  /\ call.sum_out # <<>>
  /\ \A n \in 1..Len(call.sum_out) : call.sum_out[n].kind = "raise"
  /\ locals.calls # <<>>
  /\ ~ret.raised

Zero == Rat(0, 1)

One == Rat(1, 1)

\* C2: analyze_sentiment returns a confidence in [0,1] and one of the three
\* labels; POSITIVE only with a confidence above 0.6, NEGATIVE only with one
\* below 0.4, NEUTRAL only with one from 0.4 to 0.6.
C2_LabelMatchesConfidence ==
  call.op = "analyze_sentiment" =>
    /\ ~RatLess(ret.value.confidence, Zero)
    /\ ~RatLess(One, ret.value.confidence)
    /\ ret.value.sentiment \in {"POSITIVE", "NEGATIVE", "NEUTRAL"}
    /\ ret.value.sentiment = "POSITIVE" => RatLess(PositiveAbove, ret.value.confidence)
    /\ ret.value.sentiment = "NEGATIVE" => RatLess(ret.value.confidence, NegativeBelow)
    /\ ret.value.sentiment = "NEUTRAL" =>
         /\ ~RatLess(ret.value.confidence, NegativeBelow)
         /\ ~RatLess(PositiveAbove, ret.value.confidence)

\* Two chunks scored, the mean above the upper threshold.
C2_Witness ==
  /\ call.op = "analyze_sentiment"
  /\ Len(call.sent_out) = 2
  /\ \A k \in 1..2 : call.sent_out[k].kind = "ok"
  /\ call.sent_out[1].score # call.sent_out[2].score
  /\ ret.value.sentiment = "POSITIVE"

\* The chunks whose call returned a score.
Scored(outs) == {k \in 1..Len(outs) : outs[k].kind = "ok"}

RECURSIVE ScoreSum(_, _)
ScoreSum(outs, k) ==
  IF k = 0 THEN 0
  ELSE (IF outs[k].kind = "ok" THEN outs[k].score ELSE 0) + ScoreSum(outs, k - 1)

\* C3: when every call of the sentiment model either fails or returns a
\* score, the confidence is the mean of the scores of the calls that
\* succeeded, and with no score at all the result is exactly NEUTRAL, 0.5.
C3_FailedChunksExcluded ==
  (/\ call.op = "analyze_sentiment"
   /\ \A k \in 1..Len(call.sent_out) : call.sent_out[k].kind \in {"ok", "raise"}) =>
     IF Scored(call.sent_out) = {}
       THEN ret.value = [sentiment |-> "NEUTRAL", confidence |-> Rat(1, 2)]
       ELSE RatEq(ret.value.confidence,
                  Rat(ScoreSum(call.sent_out, Len(call.sent_out)),
                      Cardinality(Scored(call.sent_out)) * ScoreUnits))

\* One chunk failed, the other was scored above zero.
C3_Witness ==
  /\ call.op = "analyze_sentiment"
  /\ Len(call.sent_out) = 2
  /\ call.sent_out[1].kind = "raise"
  /\ call.sent_out[2].kind = "ok"
  /\ call.sent_out[2].score > 0
  /\ RatEq(ret.value.confidence, Rat(call.sent_out[2].score, ScoreUnits))

\* The text is what clean_text returns for some text (clean_text leaves such
\* a text as it is) and has fewer than 50 words.
CleanedAndShort(text) ==
  /\ clean_text(text) = text
  /\ Len(PySplit(text)) < short_text_words

\* C4 as claimed: summarize_email returns every cleaned text of fewer than
\* 50 words unchanged, without calling the model.
C4_ShortCleanedUnchanged ==
  (call.op = "summarize_email" /\ CleanedAndShort(call.text)) =>
    /\ ret.value = PyStr(call.text)
    /\ locals.calls = <<>>

\* C4 amended: summarize_email returns every non-empty cleaned text of fewer
\* than 50 words unchanged, without calling the model.
C4_ShortNonEmptyUnchanged ==
  (call.op = "summarize_email" /\ CleanedAndShort(call.text) /\ call.text # <<>>) =>
    /\ ret.value = PyStr(call.text)
    /\ locals.calls = <<>>

\* A cleaned text of several sentences and fewer than 50 words came back
\* unchanged.
C4_Witness ==
  /\ call.op = "summarize_email"
  /\ call.text = Repeated
  /\ CleanedAndShort(call.text)
  /\ ret.value = PyStr(call.text)

\* C5: summarize_email returns the sentinel whenever the cleaned text of its
\* input is empty.
C5_EmptyCleanedGivesSentinel ==
  (call.op = "summarize_email" /\ clean_text(call.text) = <<>>) =>
    ret.value = PyStr(NoContent)

\* Every line with its whitespace collapsed.
Collapsed(lines) == [k \in 1..Len(lines) |-> Join(<<" ">>, PySplit(lines[k]))]

\* The claimed normalizer: the lines of more than 3 words, each with its
\* whitespace collapsed, joined by single spaces.
LineFiltered(text) ==
  Join(<<" ">>, Collapsed(SelectSeq(SplitOn(text, "\n"),
                                    LAMBDA line : Len(PySplit(line)) > 3)))

\* C6: clean_text drops every line of at most 3 words before it collapses
\* the whitespace, so ten lines of two words clean to the empty string.
C6_LinesFilteredFirst ==
  call.op \in {"analyze_sentiment", "extract_key_points"} =>
    locals.cleaned = LineFiltered(call.text)

\* The position of a key point in the sentences of the cleaned text.
Position(sentence) ==
  Lowest({i \in 1..Len(locals.sentences) : locals.sentences[i] = sentence})

\* C7: the key points come in document order: each is a sentence of the
\* cleaned text, and of two key points the one returned first stands first
\* in the text.
C7_DocumentOrder ==
  call.op = "extract_key_points" =>
    /\ \A i \in 1..Len(ret.value) :
         \E p \in 1..Len(locals.sentences) : locals.sentences[p] = ret.value[i]
    /\ \A i, j \in 1..Len(ret.value) :
         i < j => Position(ret.value[i]) < Position(ret.value[j])

\* Two key points, the higher-scored one later in the text.
C7_Witness ==
  /\ call.op = "extract_key_points"
  /\ \E i, j \in 1..Len(ret.value) :
       /\ i < j
       /\ SentenceScore(locals.sentences, ret.value[i])
            < SentenceScore(locals.sentences, ret.value[j])

\* C8 as claimed: for every integer n there are at most n key points, and at
\* most as many as the cleaned text has sentences.
C8_AtMostN ==
  call.op = "extract_key_points" =>
    /\ Len(ret.value) <= call.num_points
    /\ Len(ret.value) <= Len(sent_tokenize(locals.cleaned))

\* C8 amended: for every n >= 0 there are at most n key points, and for
\* every integer n at most as many as the cleaned text has sentences.
C8_AtMostNonNegativeN ==
  call.op = "extract_key_points" =>
    /\ call.num_points >= 0 => Len(ret.value) <= call.num_points
    /\ Len(ret.value) <= Len(sent_tokenize(locals.cleaned))

\* More sentences than asked for: exactly num_points came back.
C8_Witness ==
  /\ call.op = "extract_key_points"
  /\ call.num_points >= 1
  /\ Len(locals.sentences) > call.num_points
  /\ Len(ret.value) = call.num_points

Analysis(result) == <<result.summary, result.sentiment, result.key_points>>

RECURSIVE ChunkWords(_, _)
ChunkWords(chunks, k) ==
  IF k = 0 THEN <<>> ELSE ChunkWords(chunks, k - 1) \o PySplit(chunks[k])

\* C10: the chunks of summarize_email have at most 500 words each and their
\* words, taken in order, are exactly the words of the cleaned text.
C10_ChunksPartitionWords ==
  (call.op = "summarize_email" /\ locals.chunks # <<>>) =>
    /\ \A k \in 1..Len(locals.chunks) : Len(PySplit(locals.chunks[k])) <= max_chunk_size
    /\ ChunkWords(locals.chunks, Len(locals.chunks)) = PySplit(locals.cleaned)

\* C11: with a working tokenizer and num_points >= 0, extract_key_points
\* returns exactly min(num_points, s) key points, s counting every
\* occurrence of a repeated sentence text, so a text occurring twice is
\* returned twice when num_points >= s.
C11_OnePerOccurrence ==
  (call.op = "extract_key_points" /\ call.punkt /\ call.num_points >= 0) =>
    Len(ret.value) = Min(call.num_points, Len(sent_tokenize(locals.cleaned)))

\* The score of the i-th sentence, scored as an occurrence: +2 per noun or
\* verb and +1 per adjective or adverb outside the stop words, +3 for the
\* first sentence, +2 for the last, +2 for more than 5 and fewer than 25
\* words.
OccurrenceScore(sentences, i) ==
  TagScore(word_tokenize(sentences[i]))
  + (IF i = 1 THEN first_sentence_bonus ELSE 0)
  + (IF i = Len(sentences) THEN last_sentence_bonus ELSE 0)
  + LengthScore(word_tokenize(sentences[i]))

\* The occurrences of a text among the sentences.
Occurrences(sentences, sentence) ==
  {i \in 1..Len(sentences) : sentences[i] = sentence}

\* C12: every returned key point has a score at least that of every
\* sentence that is not returned, each sentence scored where it stands (the
\* best-placed occurrence counting for a returned text).
C12_TopScored ==
  (call.op = "extract_key_points" /\ call.punkt) =>
    \A k \in 1..Len(ret.value) :
      \A i \in 1..Len(locals.sentences) :
        (\A r \in 1..Len(ret.value) : ret.value[r] # locals.sentences[i]) =>
          \E p \in Occurrences(locals.sentences, ret.value[k]) :
            OccurrenceScore(locals.sentences, p) >= OccurrenceScore(locals.sentences, i)

\* What chunk k and the chunks after it contribute, the next call of the
\* model being the n-th: the summary text of a call that returns one, the
\* first sentence of the chunk for a call that fails, nothing for a chunk of
\* at most 50 words or a call that returns no text.
RECURSIVE Contributions(_, _, _, _)
Contributions(chunks, outs, k, n) ==
  IF k > Len(chunks) THEN <<>>
  ELSE IF Len(PySplit(chunks[k])) <= short_text_words
    THEN Contributions(chunks, outs, k + 1, n)
  ELSE (CASE outs[n].kind = "ok" -> <<outs[n].text>>
          [] outs[n].kind = "raise" -> <<sent_tokenize(chunks[k])[1]>>
          [] OTHER -> <<>>)
       \o Contributions(chunks, outs, k + 1, n + 1)

\* The first max_length words of a text of more words, then the ellipsis;
\* a text of at most max_length words as it is.
CutTo(text, words, max_length) ==
  IF Len(words) > max_length
    THEN Join(<<" ">>, SubSeq(words, 1, max_length)) \o <<".", ".", ".">>
    ELSE text

ExpectedSummary(text) == CutTo(text, PySplit(text), default_max_length)

\* Every call of the model returned summary text, returned none, or failed,
\* and the tokenizer works.
ModelsBehave ==
  /\ call.op = "summarize_email"
  /\ call.punkt
  /\ \A n \in 1..Len(call.sum_out) : call.sum_out[n].kind \in {"ok", "falsy", "raise"}

\* C13: when at least one chunk gives summary text (a failed call giving the
\* first sentence of its chunk), summarize_email returns the texts of the
\* chunks joined in chunk order by single spaces, cut to its first
\* max_length words and an ellipsis when it has more, so the result never
\* has more than max_length words.
C13_JoinedInOrderAndCut ==
  (ModelsBehave /\ Contributions(locals.chunks, call.sum_out, 1, 1) # <<>>) =>
    /\ ret.value =
         PyStr(ExpectedSummary(
                 Join(<<" ">>, Contributions(locals.chunks, call.sum_out, 1, 1))))
    /\ Len(PySplit(ret.value.v)) <= default_max_length

\* Two chunks, the model failing on the first and returning more than
\* max_length words for the second: the first sentence of the first chunk,
\* then the summary, cut.
C13_Witness ==
  /\ ModelsBehave
  /\ Len(locals.chunks) = 2
  /\ Len(call.sum_out) = 2
  /\ call.sum_out[1].kind = "raise"
  /\ call.sum_out[2] = SumOut("ok", LongSummary)
  /\ SubSeq(ret.value.v, 1, Len(S2)) = S2
  /\ Len(PySplit(ret.value.v)) = default_max_length
  /\ SubSeq(ret.value.v, Len(ret.value.v) - 2, Len(ret.value.v)) = <<".", ".", ".">>

====
